---- MODULE Spec2Model ----
(***************************************************************************)
(* A model of the pubsub Broker of go-snippets (pubsub/broker.go): the     *)
(* run loop that owns the subscription map, the four public operations     *)
(* that hand it requests over unbuffered channels, and the delivery        *)
(* goroutines it spawns for every (subscriber, message) pair.              *)
(*                                                                         *)
(* Go semantics the model relies on:                                       *)
(*  - a send on an unbuffered channel completes in one step together with  *)
(*    the receive (the caller returns when the run loop accepts);          *)
(*  - a select with several ready cases takes any one of them;             *)
(*  - a send on a closed channel and a close of a closed channel panic,    *)
(*    and an unrecovered panic in any goroutine ends the whole program;    *)
(*  - closing a channel wakes the senders blocked on it with a panic;      *)
(*  - the iteration order of a map is not specified.                       *)
(* Timing: real time is not modelled.  The one assumption is that the      *)
(* 1 s delivery deadline is longer than the time a delivery goroutine      *)
(* needs to get from creating its context to its select: the deadline can  *)
(* fire only for a goroutine that has found the send not ready.            *)
(***************************************************************************)
EXTENDS Naturals, Sequences, FiniteSets, TLC

\* ---------------------------------------------------------------- bounds
Topics == {"news", "sports"}
\* Calls of the public operations (Subscribe, Unsubscribe, Publish, Stop) in
\* the general specification.
MaxCalls == 4
\* Capacity of a Subscriber channel: make(Subscriber, 10), scaled down.
QueueCap == 2
\* Publishes beyond the capacity in the saturation scenario.
ExtraPubs == 5

Handles == 1..MaxCalls
NoPanic == [kind |-> "none", sub |-> 0]

VARIABLES
  subscriptions,  \* Broker.subscriptions: a function on the topics that have a set
  chans,          \* the Subscriber channels: [buf, closed] for every handle
  nextSub,        \* how many Subscriber channels Subscribe has allocated
  subWait,        \* callers blocked in  b.subCh <- req
  unsubWait,      \* callers blocked in  b.unsubCh <- req
  pubWait,        \* callers blocked in  b.pubCh <- msg
  stopClosed,     \* b.stopCh is closed
  reqClosed,      \* b.subCh, b.unsubCh, b.pubCh are closed (run's deferred function)
  runPc,          \* where run is: "select", "stopping" (in the stop branch), "exited"
  stopLeft,       \* the (topic, subscriber) pairs the stop branch still has to visit
  tasks,          \* the live delivery goroutines: [sub, msg, pc]
  panic,          \* the panic that ended the program, or NoPanic
  \* history, read by the properties only
  nextMsg,        \* how many Publish calls were made (the n-th call's payload is n)
  nCalls,         \* how many calls of the public operations were made
  unsubDone,      \* the (topic, handle) pairs of the Unsubscribe calls run has accepted
  pubLog,         \* the payloads in the order run accepted their publish requests
  got,            \* per handle, the messages its consumer has received, in order
  dropped,        \* the (handle, payload) pairs that were dropped on timeout
  raced,          \* handles for which a delivery was spawned while another was live
  closedBy,       \* per handle: "open", "unsubscribe" or "stop"
  subTopic,       \* per handle, the topic its Subscribe call named
  filled,         \* handles for which a delivery found the queue full
  stopTaken,      \* run has taken the stop branch of its select
  atStop,         \* the handles that were registered when Stop was first invoked
  lateStop,       \* payloads whose Publish was invoked after Stop was invoked
  lateBranch      \* payloads whose Publish was invoked after run took the stop branch

brokerVars == <<subscriptions, chans, nextSub, subWait, unsubWait, pubWait,
                stopClosed, reqClosed, runPc, stopLeft, tasks, panic>>
histVars == <<nextMsg, nCalls, unsubDone, pubLog, got, dropped, raced,
              closedBy, subTopic, filled, stopTaken, atStop, lateStop, lateBranch>>

\* The digit counter (countDigitsParallel) and the sum benchmark
\* (sumSquaresConcurrent) are programs of their own, with their own state.
VARIABLES
  words,          \* countDigitsParallel's words: a sequence of rune sequences
  numWorkers,     \* countDigitsParallel's numWorkers
  cancelled,      \* ctx.Done() is closed
  taskQ,          \* the buffer of the tasks channel
  tasksClosed,    \* tasks is closed
  resultQ,        \* the buffer of the results channel
  resultsClosed,  \* results is closed
  doneQ,          \* how many signals the done channel holds
  prodIdx,        \* the producer's position in words
  prodPc,         \* the producer: "idle", "run", "exited"
  wpc,            \* per worker: "recv" (outer select), "send" (inner), "exited"
  wm,             \* per worker, the map m it has counted and not yet sent
  coordGot,       \* how many done signals the coordinator has received
  coordPc,        \* the coordinator: "idle", "run", "exited"
  final,          \* mergeResults' final map
  mergePc,        \* mergeResults: "idle", "run", "returned"
  digPanic,       \* a goroutine of the digit counter has panicked
  data,           \* sumSquaresConcurrent's data
  workers,        \* sumSquaresConcurrent's workers
  sumI,           \* the spawn loop's i
  chunks,         \* the chunks of the goroutines that have not sent yet
  sumResults,     \* the buffer of sumSquaresConcurrent's results channel
  nRecv,          \* how many results the collecting loop has received
  total,          \* sumSquaresConcurrent's total
  sumPc           \* "idle", "spawn", "collect", "returned", "panic"

digVars == <<words, numWorkers, cancelled, taskQ, tasksClosed, resultQ,
             resultsClosed, doneQ, prodIdx, prodPc, wpc, wm, coordGot, coordPc,
             final, mergePc, digPanic>>
sumVars == <<data, workers, sumI, chunks, sumResults, nRecv, total, sumPc>>
workVars == <<digVars, sumVars>>
vars == <<brokerVars, histVars, workVars>>

\* Neither program has been called.
DigitsIdle ==
  /\ words = << >> /\ numWorkers = 0 /\ cancelled = FALSE
  /\ taskQ = << >> /\ tasksClosed = FALSE
  /\ resultQ = << >> /\ resultsClosed = FALSE
  /\ doneQ = 0 /\ prodIdx = 1 /\ prodPc = "idle"
  /\ wpc = << >> /\ wm = << >>
  /\ coordGot = 0 /\ coordPc = "idle"
  /\ final = << >> /\ mergePc = "idle" /\ digPanic = FALSE
SumIdle ==
  /\ data = << >> /\ workers = 0 /\ sumI = 0 /\ chunks = << >>
  /\ sumResults = << >> /\ nRecv = 0 /\ total = 0 /\ sumPc = "idle"


\* ------------------------------------------------------------- helpers
\* b.subscriptions[topic] read as a set: a missing key reads as the nil map.
TopicSubs(subs, topic) == IF topic \in DOMAIN subs THEN subs[topic] ELSE {}

\* b.subscriptions[req.topic][req.sub] = true, making the inner map when nil.
MapInsert(subs, topic, sub) ==
  [t \in DOMAIN subs \cup {topic} |->
     IF t = topic THEN TopicSubs(subs, topic) \cup {sub} ELSE subs[t]]

\* delete(topicSubs, req.sub): the topic's key stays.
MapDelete(subs, topic, sub) ==
  [t \in DOMAIN subs |-> IF t = topic THEN subs[t] \ {sub} ELSE subs[t]]

Running == panic = NoPanic

NewBroker ==
  /\ subscriptions = << >>
  /\ chans = [h \in Handles |-> [buf |-> << >>, closed |-> FALSE]]
  /\ nextSub = 0
  /\ subWait = {} /\ unsubWait = {} /\ pubWait = {}
  /\ stopClosed = FALSE /\ reqClosed = FALSE
  /\ runPc = "select"
  /\ stopLeft = {}
  /\ tasks = {}
  /\ panic = NoPanic

BrokerInit ==
  /\ NewBroker
  /\ nextMsg = 0 /\ nCalls = 0
  /\ unsubDone = {} /\ pubLog = << >>
  /\ got = [h \in Handles |-> << >>]
  /\ dropped = {}
  /\ raced = {}
  /\ closedBy = [h \in Handles |-> "open"]
  /\ subTopic = [h \in Handles |-> "none"]
  /\ filled = {} /\ stopTaken = FALSE /\ atStop = {}
  /\ lateStop = {} /\ lateBranch = {}

Init == BrokerInit /\ DigitsIdle /\ SumIdle

\* ------------------------------------------------------ the callers' side
\* A call blocks in its send on the unbuffered request channel until run
\* accepts it; a send on a request channel that run has closed panics.  At
\* most one caller is blocked on each of the three channels at a time.
SendClosed == [kind |-> "send on closed request channel", sub |-> 0]

\* Subscribe: sub := make(Subscriber, 10); b.subCh <- req.  Handles number the
\* channels whose request entered the send (one made for a send that panics
\* is never seen by anyone).
CallSubscribe(topic, limit) ==
  /\ UNCHANGED workVars
  /\ Running
  /\ nCalls < limit
  /\ subWait = {}
  /\ nCalls' = nCalls + 1
  /\ IF reqClosed
       THEN /\ panic' = SendClosed
            /\ UNCHANGED <<subWait, nextSub, subTopic>>
       ELSE /\ subWait' = {[topic |-> topic, sub |-> nextSub + 1]}
            /\ nextSub' = nextSub + 1
            /\ subTopic' = [subTopic EXCEPT ![nextSub + 1] = topic]
            /\ UNCHANGED panic
  /\ UNCHANGED <<subscriptions, chans, unsubWait, pubWait, stopClosed, reqClosed,
                 runPc, stopLeft, tasks>>
  /\ UNCHANGED <<nextMsg, unsubDone, pubLog, got, dropped, raced, closedBy,
                 lateStop, lateBranch>>
  /\ UNCHANGED <<filled, stopTaken, atStop>>

\* With a buffered subCh, Subscribe would return before run has the request.
ReturnedAtOnce == 1..nextSub

\* The handles a caller holds: those whose Subscribe call has returned.
Returned == {h \in 1..nextSub : \A r \in subWait : r.sub # h}

\* An Unsubscribe that deletes from the map in the caller's goroutine.
CallUnsubscribeDirect(topic, sub, limit) ==
  /\ UNCHANGED workVars
  /\ Running
  /\ nCalls < limit
  /\ sub \in Returned
  /\ nCalls' = nCalls + 1
  /\ subscriptions' =
       IF topic \in DOMAIN subscriptions
         THEN [subscriptions EXCEPT ![topic] = @ \ {sub}]
         ELSE subscriptions
  /\ UNCHANGED <<chans, nextSub, subWait, unsubWait, pubWait, stopClosed,
                 reqClosed, runPc, stopLeft, tasks, panic>>
  /\ UNCHANGED <<nextMsg, unsubDone, pubLog, got, dropped, raced, closedBy,
                 subTopic, lateStop, lateBranch>>
  /\ UNCHANGED <<filled, stopTaken, atStop>>

\* Unsubscribe: b.unsubCh <- req, with any topic and any handle the caller holds.
CallUnsubscribe(topic, sub, limit) ==
  /\ UNCHANGED workVars
  /\ Running
  /\ nCalls < limit
  /\ unsubWait = {}
  /\ sub \in Returned
  /\ nCalls' = nCalls + 1
  /\ IF reqClosed
       THEN /\ panic' = SendClosed
            /\ UNCHANGED unsubWait
       ELSE /\ unsubWait' = {[topic |-> topic, sub |-> sub]}
            /\ UNCHANGED panic
  /\ UNCHANGED <<subscriptions, chans, nextSub, subWait, pubWait, stopClosed,
                 reqClosed, runPc, stopLeft, tasks>>
  /\ UNCHANGED <<nextMsg, unsubDone, pubLog, got, dropped, raced, closedBy,
                 subTopic, lateStop, lateBranch>>
  /\ UNCHANGED <<filled, stopTaken, atStop>>

\* Publish: msg := Message{topic, payload}; b.pubCh <- msg.  The payload of the
\* n-th call is n.
CallPublish(topic, limit) ==
  /\ UNCHANGED workVars
  /\ Running
  /\ nCalls < limit
  /\ pubWait = {}
  /\ nCalls' = nCalls + 1
  /\ nextMsg' = nextMsg + 1
  /\ lateStop' = IF stopClosed THEN lateStop \cup {nextMsg + 1} ELSE lateStop
  /\ lateBranch' = IF stopTaken THEN lateBranch \cup {nextMsg + 1}
                   ELSE lateBranch
  /\ IF reqClosed
       THEN /\ panic' = SendClosed
            /\ UNCHANGED pubWait
       ELSE /\ pubWait' = {[Topic |-> topic, Payload |-> nextMsg + 1]}
            /\ UNCHANGED panic
  /\ UNCHANGED <<subscriptions, chans, nextSub, subWait, unsubWait, stopClosed,
                 reqClosed, runPc, stopLeft, tasks>>
  /\ UNCHANGED <<unsubDone, pubLog, got, dropped, raced, closedBy, subTopic,
                 filled, stopTaken, atStop>>

\* A Stop guarded so that only the first call closes stopCh.
CallStopOnce(limit) ==
  /\ UNCHANGED workVars
  /\ Running
  /\ nCalls < limit
  /\ nCalls' = nCalls + 1
  /\ stopClosed' = TRUE
  /\ atStop' = IF stopClosed THEN atStop
               ELSE UNION {subscriptions[t] : t \in DOMAIN subscriptions}
  /\ UNCHANGED <<subscriptions, chans, nextSub, subWait, unsubWait, pubWait,
                 reqClosed, runPc, stopLeft, tasks, panic>>
  /\ UNCHANGED <<nextMsg, unsubDone, pubLog, got, dropped, raced, closedBy,
                 subTopic, lateStop, lateBranch>>
  /\ UNCHANGED <<filled, stopTaken>>

\* Stop: close(b.stopCh); closing it a second time panics.
CallStop(limit) ==
  /\ UNCHANGED workVars
  /\ Running
  /\ nCalls < limit
  /\ nCalls' = nCalls + 1
  /\ IF stopClosed
       THEN /\ panic' = [kind |-> "close of closed stopCh", sub |-> 0]
            /\ UNCHANGED stopClosed
       ELSE /\ stopClosed' = TRUE
            /\ UNCHANGED panic
  /\ UNCHANGED <<subscriptions, chans, nextSub, subWait, unsubWait, pubWait,
                 reqClosed, runPc, stopLeft, tasks>>
  /\ UNCHANGED <<nextMsg, unsubDone, pubLog, got, dropped, raced, closedBy,
                 subTopic, lateStop, lateBranch>>
  /\ atStop' = IF stopClosed THEN atStop
               ELSE UNION {subscriptions[t] : t \in DOMAIN subscriptions}
  /\ UNCHANGED <<filled, stopTaken>>

\* ------------------------------------------------------------ the run loop
\* A subscribe branch that makes a new inner map every time.
SubscribeBranchFresh(subs, req) ==
  [t \in DOMAIN subs \cup {req.topic} |->
     IF t = req.topic THEN {req.sub} ELSE subs[t]]

\* A subscribe branch that also puts the handle in every set there is.
SubscribeBranchEverywhere(subs, req) ==
  [t \in DOMAIN subs \cup {req.topic} |->
     (IF t \in DOMAIN subs THEN subs[t] ELSE {}) \cup {req.sub}]

\* case req := <-b.subCh: the set after the insertion.
SubscribeBranch(subs, req) == MapInsert(subs, req.topic, req.sub)

\* topicSubs, ok := b.subscriptions[req.topic]; _, subOk := topicSubs[req.sub].
IsMember(subs, topic, sub) == topic \in DOMAIN subs /\ sub \in subs[topic]

\* An unsubscribe branch without the delete.
UnsubscribeBranchKeep(subs, req) == subs

\* case req := <-b.unsubCh: the map after the branch.
UnsubscribeBranch(subs, req) ==
  IF IsMember(subs, req.topic, req.sub)
    THEN MapDelete(subs, req.topic, req.sub)
    ELSE subs

\* An unsubscribe branch that closes without the subOk check.
UnsubscribeClosesAlways(subs, req) == {req.sub}

\* The channels the unsubscribe branch closes.
UnsubscribeCloses(subs, req) ==
  IF IsMember(subs, req.topic, req.sub) THEN {req.sub} ELSE {}

\* A publish branch that ranges over the subscribers of every topic.
FanoutAll(subs, msg) == UNION {subs[t] : t \in DOMAIN subs}

\* case msg := <-b.pubCh: the subscribers a delivery goroutine is spawned for.
Fanout(subs, msg) == TopicSubs(subs, msg.Topic)

\* case <-b.stopCh: the (topic, subscriber) pairs the two range loops visit.
StopTargets(subs) == {p \in (DOMAIN subs) \X Handles : p[2] \in subs[p[1]]}

\* Whether run can take a request case of its select.
\* A run loop that sends to the subscribers itself would sit in a full queue's
\* send instead of its select.
AtSelectWaits ==
  Running /\ runPc = "select" /\ \A k \in tasks : k.pc # "blocked"

AtSelect == Running /\ runPc = "select"

RunSub(req) ==
  /\ UNCHANGED workVars
  /\ AtSelect
  /\ req \in subWait
  /\ subWait' = subWait \ {req}
  /\ subscriptions' = SubscribeBranch(subscriptions, req)
  /\ UNCHANGED <<chans, nextSub, unsubWait, pubWait, stopClosed, reqClosed, runPc,
                 stopLeft, tasks, panic>>
  /\ UNCHANGED <<nextMsg, nCalls, unsubDone, pubLog, got, dropped, raced,
                 closedBy, subTopic, lateStop, lateBranch>>
  /\ UNCHANGED <<filled, stopTaken, atStop>>

\* close(sub) by `who`: a second close panics.
CloseSub(sub, who) ==
  IF chans[sub].closed
    THEN /\ panic' = [kind |-> "close of closed subscriber", sub |-> sub]
         /\ UNCHANGED <<chans, closedBy>>
    ELSE /\ chans' = [chans EXCEPT ![sub].closed = TRUE]
         /\ closedBy' = [closedBy EXCEPT ![sub] = who]
         /\ UNCHANGED panic

RunUnsub(req) ==
  /\ UNCHANGED workVars
  /\ AtSelect
  /\ req \in unsubWait
  /\ unsubWait' = unsubWait \ {req}
  /\ subscriptions' = UnsubscribeBranch(subscriptions, req)
  /\ IF UnsubscribeCloses(subscriptions, req) # {}
       THEN CloseSub(req.sub, "unsubscribe")
       ELSE UNCHANGED <<chans, closedBy, panic>>
  /\ unsubDone' = unsubDone \cup {<<req.topic, req.sub>>}
  /\ UNCHANGED <<nextSub, subWait, pubWait, stopClosed, reqClosed, runPc, stopLeft,
                 tasks>>
  /\ UNCHANGED <<nextMsg, nCalls, pubLog, got, dropped, raced, subTopic,
                 lateStop, lateBranch>>
  /\ UNCHANGED <<filled, stopTaken, atStop>>

RunPub(msg) ==
  /\ UNCHANGED workVars
  /\ AtSelect
  /\ msg \in pubWait
  /\ pubWait' = pubWait \ {msg}
  /\ tasks' = tasks \cup {[sub |-> h, msg |-> msg, pc |-> "start"] :
                            h \in Fanout(subscriptions, msg)}
  /\ pubLog' = Append(pubLog, msg.Payload)
  /\ raced' = raced \cup {h \in Fanout(subscriptions, msg) :
                            \E k \in tasks : k.sub = h}
  /\ UNCHANGED <<subscriptions, chans, nextSub, subWait, unsubWait, stopClosed,
                 reqClosed, runPc, stopLeft, panic>>
  /\ UNCHANGED <<nextMsg, nCalls, unsubDone, got, dropped, closedBy, subTopic,
                 lateStop, lateBranch>>
  /\ UNCHANGED <<filled, stopTaken, atStop>>

\* case <-b.stopCh: ready once stopCh is closed; the select may still take
\* another ready case instead.
RunStop ==
  /\ UNCHANGED workVars
  /\ AtSelect
  /\ stopClosed
  /\ runPc' = "stopping"
  /\ stopLeft' = StopTargets(subscriptions)
  /\ UNCHANGED <<subscriptions, chans, nextSub, subWait, unsubWait, pubWait,
                 stopClosed, reqClosed, tasks, panic>>
  /\ stopTaken' = TRUE
  /\ UNCHANGED <<nextMsg, nCalls, unsubDone, pubLog, got, dropped, raced, closedBy,
                 subTopic, filled, atStop, lateStop, lateBranch>>

\* One close(sub) of the stop branch's loops, in any order.
RunStopClose(pair) ==
  /\ UNCHANGED workVars
  /\ Running
  /\ runPc = "stopping"
  /\ pair \in stopLeft
  /\ stopLeft' = stopLeft \ {pair}
  /\ CloseSub(pair[2], "stop")
  /\ UNCHANGED <<subscriptions, nextSub, subWait, unsubWait, pubWait, stopClosed,
                 reqClosed, runPc, tasks>>
  /\ UNCHANGED <<nextMsg, nCalls, unsubDone, pubLog, got, dropped, raced,
                 subTopic, lateStop, lateBranch>>
  /\ UNCHANGED <<filled, stopTaken, atStop>>

\* A stop branch that ends in break (which leaves only the select) instead of
\* return: the loop goes on.
RunExitBreak ==
  /\ UNCHANGED workVars
  /\ Running
  /\ runPc = "stopping"
  /\ stopLeft = {}
  /\ runPc' = "select"
  /\ UNCHANGED <<subscriptions, chans, nextSub, subWait, unsubWait, pubWait,
                 stopClosed, reqClosed, stopLeft, tasks, panic>>
  /\ UNCHANGED histVars

\* A run that returns without the deferred closes: the request channels stay
\* open with no receiver.
RunExitNoDefer ==
  /\ UNCHANGED workVars
  /\ Running
  /\ runPc = "stopping"
  /\ stopLeft = {}
  /\ runPc' = "exited"
  /\ UNCHANGED <<subscriptions, chans, nextSub, subWait, unsubWait, pubWait,
                 stopClosed, reqClosed, stopLeft, tasks, panic>>
  /\ UNCHANGED histVars

\* return, and the deferred close(b.subCh); close(b.unsubCh); close(b.pubCh):
\* a caller blocked in a send on one of them panics.
RunExit ==
  /\ UNCHANGED workVars
  /\ Running
  /\ runPc = "stopping"
  /\ stopLeft = {}
  /\ runPc' = "exited"
  /\ reqClosed' = TRUE
  /\ panic' = IF subWait # {} \/ unsubWait # {} \/ pubWait # {}
                THEN SendClosed
                ELSE panic
  /\ UNCHANGED <<subscriptions, chans, nextSub, subWait, unsubWait, pubWait,
                 stopClosed, stopLeft, tasks>>
  /\ UNCHANGED histVars

\* ------------------------------------------------- the delivery goroutines
\* s <- m can proceed: the buffer has room.
HasRoom(ch) == Len(ch.buf) < QueueCap

\* A buffer that takes a new message at its head.
EnqueueFront(buf, m) == <<m>> \o buf

\* The buffer after s <- m.
Enqueue(buf, m) == Append(buf, m)

\* The send case of a delivery goroutine's select: panics on a closed channel.
SendTo(k) ==
  IF chans[k.sub].closed
    THEN /\ panic' = [kind |-> "send on closed subscriber", sub |-> k.sub]
         /\ UNCHANGED <<chans, tasks>>
    ELSE /\ chans' = [chans EXCEPT ![k.sub].buf = Enqueue(@, k.msg)]
         /\ tasks' = tasks \ {k}
         /\ UNCHANGED panic

\* The goroutine reaches its select: it sends if the send is ready, and waits
\* otherwise.
DeliverStart(k) ==
  /\ UNCHANGED workVars
  /\ Running
  /\ k \in tasks
  /\ k.pc = "start"
  /\ IF chans[k.sub].closed \/ HasRoom(chans[k.sub])
       THEN SendTo(k) /\ UNCHANGED filled
       ELSE /\ tasks' = (tasks \ {k}) \cup {[k EXCEPT !.pc = "blocked"]}
            /\ filled' = filled \cup {k.sub}
            /\ UNCHANGED <<chans, panic>>
  /\ UNCHANGED <<subscriptions, nextSub, subWait, unsubWait, pubWait, stopClosed,
                 reqClosed, runPc, stopLeft>>
  /\ UNCHANGED <<nextMsg, nCalls, unsubDone, pubLog, got, dropped, raced, closedBy,
                 subTopic, stopTaken, atStop, lateStop, lateBranch>>

\* A waiting goroutine's send becomes ready: room appeared, or the channel was
\* closed.
DeliverWake(k) ==
  /\ UNCHANGED workVars
  /\ Running
  /\ k \in tasks
  /\ k.pc = "blocked"
  /\ chans[k.sub].closed \/ HasRoom(chans[k.sub])
  /\ SendTo(k)
  /\ UNCHANGED <<subscriptions, nextSub, subWait, unsubWait, pubWait, stopClosed,
                 reqClosed, runPc, stopLeft>>
  /\ UNCHANGED histVars

\* A deadline that may fire before the goroutine has found the send not ready.
MayTimeOutAlways(k) == k \in tasks

\* The goroutines whose <-ctx.Done() case may be taken.
MayTimeOut(k) == k.pc = "blocked" /\ ~chans[k.sub].closed

\* case <-ctx.Done(): the message is dropped.
DeliverTimeout(k) ==
  /\ UNCHANGED workVars
  /\ Running
  /\ k \in tasks
  /\ MayTimeOut(k)
  /\ tasks' = tasks \ {k}
  /\ dropped' = dropped \cup {<<k.sub, k.msg.Payload>>}
  /\ UNCHANGED <<subscriptions, chans, nextSub, subWait, unsubWait, pubWait,
                 stopClosed, reqClosed, runPc, stopLeft, panic>>
  /\ UNCHANGED <<nextMsg, nCalls, unsubDone, pubLog, got, raced, closedBy,
                 subTopic, lateStop, lateBranch>>
  /\ UNCHANGED <<filled, stopTaken, atStop>>

\* ----------------------------------------------------------- the consumers
\* for msg := range sub: one receive from a handle the consumer holds.
Receive(h) ==
  /\ UNCHANGED workVars
  /\ Running
  /\ h \in Returned
  /\ chans[h].buf # << >>
  /\ got' = [got EXCEPT ![h] = Append(@, Head(chans[h].buf))]
  /\ chans' = [chans EXCEPT ![h].buf = Tail(@)]
  /\ UNCHANGED <<subscriptions, nextSub, subWait, unsubWait, pubWait, stopClosed,
                 reqClosed, runPc, stopLeft, tasks, panic>>
  /\ UNCHANGED <<nextMsg, nCalls, unsubDone, pubLog, dropped, raced, closedBy,
                 subTopic, lateStop, lateBranch>>
  /\ UNCHANGED <<filled, stopTaken, atStop>>

\* The range loop over h has ended: h is closed and drained.
RangeDone(h) == chans[h].closed /\ chans[h].buf = << >>

\* ------------------------------------------------------- the specification
Next ==
  \/ \E t \in Topics : CallSubscribe(t, MaxCalls)
  \/ \E t \in Topics, h \in Handles : CallUnsubscribe(t, h, MaxCalls)
  \/ \E t \in Topics : CallPublish(t, MaxCalls)
  \/ CallStop(MaxCalls)
  \/ \E r \in subWait : RunSub(r)
  \/ \E r \in unsubWait : RunUnsub(r)
  \/ \E m \in pubWait : RunPub(m)
  \/ RunStop
  \/ \E p \in stopLeft : RunStopClose(p)
  \/ RunExit
  \/ \E k \in tasks : DeliverStart(k)
  \/ \E k \in tasks : DeliverWake(k)
  \/ \E k \in tasks : DeliverTimeout(k)
  \/ \E h \in Handles : Receive(h)

Spec == Init /\ [][Next]_vars

\* The steps of the run goroutine and of the delivery goroutines.
RunStep ==
  \/ \E r \in subWait : RunSub(r)
  \/ \E r \in unsubWait : RunUnsub(r)
  \/ \E m \in pubWait : RunPub(m)
  \/ RunStop
  \/ \E p \in stopLeft : RunStopClose(p)
  \/ RunExit

\* The Go scheduler keeps running a goroutine that can take a step.
FairSpec == Spec /\ WF_vars(RunStep)

\* The saturation scenario: one handle on "news" whose consumer never reads,
\* and QueueCap + ExtraPubs publishes to "news" once it is registered.
SatCalls == 1 + QueueCap + ExtraPubs

NextSat ==
  \/ nextSub = 0 /\ CallSubscribe("news", SatCalls)
  \/ Returned # {} /\ CallPublish("news", SatCalls)
  \/ \E r \in subWait : RunSub(r)
  \/ \E m \in pubWait : RunPub(m)
  \/ \E k \in tasks : DeliverStart(k)
  \/ \E k \in tasks : DeliverTimeout(k)

SatSpec == Init /\ [][NextSat]_vars

\* The slow-subscriber scenario: the consumer of handle 1 never reads, Stop is
\* not invoked, and up to two handles subscribe to "news"; enough calls for a
\* delivery to handle 1 to find the queue full and for requests to follow it.
SlowCalls == QueueCap + 3

\* The delivery goroutines' first step.
DeliverStep == \E k \in tasks : DeliverStart(k)

NextSlow ==
  \/ nextSub < 2 /\ CallSubscribe("news", SlowCalls)
  \/ CallUnsubscribe("news", 2, SlowCalls)
  \/ CallPublish("news", SlowCalls)
  \/ \E r \in subWait : RunSub(r)
  \/ \E r \in unsubWait : RunUnsub(r)
  \/ \E m \in pubWait : RunPub(m)
  \/ \E k \in tasks : DeliverStart(k)
  \/ \E k \in tasks : DeliverWake(k)
  \/ \E k \in tasks : DeliverTimeout(k)
  \/ \E h \in Handles \ {1} : Receive(h)

SlowSpec == Init /\ [][NextSlow]_vars

\* The Go scheduler keeps running the run goroutine and starts every delivery
\* goroutine.
FairSlowSpec == SlowSpec /\ WF_vars(RunStep) /\ WF_vars(DeliverStep)

\* A step of a delivery goroutine: reaching its select, its send, or its
\* deadline.  The scheduler runs every goroutine that can take a step and the
\* 1 s timer fires; no consumer need ever read.
DeliverAny ==
  \E k \in tasks : DeliverStart(k) \/ DeliverWake(k) \/ DeliverTimeout(k)
FairDeliverSpec == Spec /\ WF_vars(DeliverAny)

\* ------------------------------------------------------- the digit counter
\* The runes '/', '0', '9', ':' and 'a', and the words the lists are drawn from.
Vocabulary == {<<47, 58>>, <<57>>, <<48, 57, 57, 97>>}
MaxWords == 2
MaxWorkers == 2

RECURSIVE ListsUpTo(_)
ListsUpTo(n) ==
  IF n = 0 THEN {<< >>}
  ELSE LET shorter == ListsUpTo(n - 1)
       IN shorter \cup {Append(l, w) : l \in {x \in shorter : Len(x) = n - 1},
                                       w \in Vocabulary}

\* A test that leaves out '0'.
IsDigitAboveZero(r) == r > 48 /\ r <= 57

\* r >= '0' && r <= '9'
IsDigit(r) == r >= 48 /\ r <= 57

\* The map m a worker builds for one word: m[r]++ for every digit rune.
CountWord(w) ==
  [r \in {w[i] : i \in {j \in 1..Len(w) : IsDigit(w[j])}} |->
     Cardinality({i \in 1..Len(w) : w[i] = r})]

\* A merge that adds every count of m twice.
MergeIntoTwice(f, m) ==
  [k \in DOMAIN f \cup DOMAIN m |->
     (IF k \in DOMAIN f THEN f[k] ELSE 0) + (IF k \in DOMAIN m THEN 2 * m[k] ELSE 0)]

\* final[k] += v for every k, v of m.
MergeInto(f, m) ==
  [k \in DOMAIN f \cup DOMAIN m |->
     (IF k \in DOMAIN f THEN f[k] ELSE 0) + (IF k \in DOMAIN m THEN m[k] ELSE 0)]

\* countDigitsParallel(ctx, ws, n) up to its call of mergeResults: the three
\* channels are made and the workers, the producer and the coordinator started.
CountDigitsParallel(ws, n) ==
  /\ words = ws /\ numWorkers = n
  /\ taskQ = << >> /\ tasksClosed = FALSE
  /\ resultQ = << >> /\ resultsClosed = FALSE
  /\ doneQ = 0 /\ prodIdx = 1 /\ prodPc = "run"
  /\ wpc = [w \in 1..n |-> "recv"] /\ wm = [w \in 1..n |-> << >>]
  /\ coordGot = 0 /\ coordPc = "run"
  /\ final = << >> /\ mergePc = "run" /\ digPanic = FALSE

\* The context may be cancelled already when the function is called.
DigInit ==
  /\ BrokerInit /\ SumIdle
  /\ cancelled \in BOOLEAN
  /\ \E ws \in ListsUpTo(MaxWords), n \in 1..MaxWorkers : CountDigitsParallel(ws, n)

DigFrame == UNCHANGED <<brokerVars, histVars, sumVars, words, numWorkers>>

\* cancel(), or the context's deadline.
Cancel ==
  /\ ~digPanic /\ ~cancelled
  /\ cancelled' = TRUE
  /\ DigFrame
  /\ UNCHANGED <<taskQ, tasksClosed, resultQ, resultsClosed, doneQ, prodIdx,
                 prodPc, wpc, wm, coordGot, coordPc, final, mergePc, digPanic>>

\* The producer's select takes  tasks <- w  when the buffer has room.
ProducerSend ==
  /\ ~digPanic /\ prodPc = "run"
  /\ prodIdx <= Len(words)
  /\ Len(taskQ) < numWorkers
  /\ taskQ' = Append(taskQ, words[prodIdx])
  /\ prodIdx' = prodIdx + 1
  /\ DigFrame
  /\ UNCHANGED <<cancelled, tasksClosed, resultQ, resultsClosed, doneQ, prodPc,
                 wpc, wm, coordGot, coordPc, final, mergePc, digPanic>>

\* The producer returns, on ctx.Done() or after the last word; the deferred
\* close(tasks) runs.
ProducerExit ==
  /\ ~digPanic /\ prodPc = "run"
  /\ prodIdx > Len(words) \/ cancelled
  /\ prodPc' = "exited"
  /\ tasksClosed' = TRUE
  /\ DigFrame
  /\ UNCHANGED <<cancelled, taskQ, resultQ, resultsClosed, doneQ, prodIdx, wpc,
                 wm, coordGot, coordPc, final, mergePc, digPanic>>

\* A worker's outer select receives a word and counts its digits.
WorkerTake(w) ==
  /\ ~digPanic /\ wpc[w] = "recv"
  /\ taskQ # << >>
  /\ wm' = [wm EXCEPT ![w] = CountWord(Head(taskQ))]
  /\ taskQ' = Tail(taskQ)
  /\ wpc' = [wpc EXCEPT ![w] = "send"]
  /\ DigFrame
  /\ UNCHANGED <<cancelled, tasksClosed, resultQ, resultsClosed, doneQ, prodIdx,
                 prodPc, coordGot, coordPc, final, mergePc, digPanic>>

\* A worker returns from its outer select, on ctx.Done() or on the closed and
\* drained tasks channel; its deferred  done <- struct{}{}  never blocks.
WorkerExitRecv(w) ==
  /\ ~digPanic /\ wpc[w] = "recv"
  /\ cancelled \/ (tasksClosed /\ taskQ = << >>)
  /\ wpc' = [wpc EXCEPT ![w] = "exited"]
  /\ doneQ' = doneQ + 1
  /\ DigFrame
  /\ UNCHANGED <<cancelled, taskQ, tasksClosed, resultQ, resultsClosed, prodIdx,
                 prodPc, wm, coordGot, coordPc, final, mergePc, digPanic>>

\* A worker's inner select takes  results <- m : a send on a closed channel
\* panics, a send on an open one needs room in the buffer.
WorkerSend(w) ==
  /\ ~digPanic /\ wpc[w] = "send"
  /\ IF resultsClosed
       THEN /\ digPanic' = TRUE
            /\ UNCHANGED <<resultQ, wpc, wm>>
       ELSE /\ Len(resultQ) < numWorkers
            /\ resultQ' = Append(resultQ, wm[w])
            /\ wpc' = [wpc EXCEPT ![w] = "recv"]
            /\ wm' = [wm EXCEPT ![w] = << >>]
            /\ UNCHANGED digPanic
  /\ DigFrame
  /\ UNCHANGED <<cancelled, taskQ, tasksClosed, resultsClosed, doneQ, prodIdx,
                 prodPc, coordGot, coordPc, final, mergePc>>

\* An inner select without the ctx.Done() case.
InnerNoDone == FALSE

\* The inner select's ctx.Done() case is ready.
InnerDone == cancelled

\* A worker returns from its inner select on ctx.Done(); its m is lost.
WorkerExitSend(w) ==
  /\ ~digPanic /\ wpc[w] = "send"
  /\ InnerDone
  /\ wpc' = [wpc EXCEPT ![w] = "exited"]
  /\ wm' = [wm EXCEPT ![w] = << >>]
  /\ doneQ' = doneQ + 1
  /\ DigFrame
  /\ UNCHANGED <<cancelled, taskQ, tasksClosed, resultQ, resultsClosed, prodIdx,
                 prodPc, coordGot, coordPc, final, mergePc, digPanic>>

\* The coordinator receives one signal from done.
CoordRecv ==
  /\ ~digPanic /\ coordPc = "run"
  /\ coordGot < numWorkers
  /\ doneQ > 0
  /\ doneQ' = doneQ - 1
  /\ coordGot' = coordGot + 1
  /\ DigFrame
  /\ UNCHANGED <<cancelled, taskQ, tasksClosed, resultQ, resultsClosed, prodIdx,
                 prodPc, wpc, wm, coordPc, final, mergePc, digPanic>>

\* After numWorkers signals the coordinator closes results and returns.
CoordClose ==
  /\ ~digPanic /\ coordPc = "run"
  /\ coordGot = numWorkers
  /\ resultsClosed' = TRUE
  /\ coordPc' = "exited"
  /\ DigFrame
  /\ UNCHANGED <<cancelled, taskQ, tasksClosed, resultQ, doneQ, prodIdx, prodPc,
                 wpc, wm, coordGot, final, mergePc, digPanic>>

\* mergeResults receives a map and adds it to final.
MergeRecv ==
  /\ ~digPanic /\ mergePc = "run"
  /\ resultQ # << >>
  /\ final' = MergeInto(final, Head(resultQ))
  /\ resultQ' = Tail(resultQ)
  /\ DigFrame
  /\ UNCHANGED <<cancelled, taskQ, tasksClosed, resultsClosed, doneQ, prodIdx,
                 prodPc, wpc, wm, coordGot, coordPc, mergePc, digPanic>>

\* mergeResults returns final, on ctx.Done() or on the closed and drained
\* results channel; countDigitsParallel returns with it.
MergeReturn ==
  /\ ~digPanic /\ mergePc = "run"
  /\ cancelled \/ (resultsClosed /\ resultQ = << >>)
  /\ mergePc' = "returned"
  /\ DigFrame
  /\ UNCHANGED <<cancelled, taskQ, tasksClosed, resultQ, resultsClosed, doneQ,
                 prodIdx, prodPc, wpc, wm, coordGot, coordPc, final, digPanic>>

Producer == ProducerSend \/ ProducerExit
Worker(w) == WorkerTake(w) \/ WorkerExitRecv(w) \/ WorkerSend(w) \/ WorkerExitSend(w)
Coordinator == CoordRecv \/ CoordClose
Merger == MergeRecv \/ MergeReturn

DigNext ==
  \/ Cancel
  \/ ProducerSend
  \/ ProducerExit
  \/ \E w \in DOMAIN wpc : WorkerTake(w)
  \/ \E w \in DOMAIN wpc : WorkerExitRecv(w)
  \/ \E w \in DOMAIN wpc : WorkerSend(w)
  \/ \E w \in DOMAIN wpc : WorkerExitSend(w)
  \/ CoordRecv
  \/ CoordClose
  \/ MergeRecv
  \/ MergeReturn

DigSpec == DigInit /\ [][DigNext]_vars

\* A step of one of the goroutines.  While some goroutine can take a step the
\* Go scheduler runs one; a cancellation need never come.
DigStep == Producer \/ (\E w \in DOMAIN wpc : Worker(w)) \/ Coordinator \/ Merger
FairDigSpec == DigSpec /\ WF_vars(DigStep)

\* ------------------------------------------------------- the sum benchmark
\* The slices data is drawn from, and the worker counts.
Values == {1, 2}
MaxLen == 3
MaxSumWorkers == 3

RECURSIVE DataUpTo(_)
DataUpTo(n) ==
  IF n = 0 THEN {<< >>}
  ELSE LET shorter == DataUpTo(n - 1)
       IN shorter \cup {Append(d, v) : d \in {x \in shorter : Len(x) = n - 1},
                                       v \in Values}

\* sumSquaresSequential, also the body of a chunk's goroutine: sum += v * v.
RECURSIVE sumSquaresSequential(_)
sumSquaresSequential(d) ==
  IF d = << >> THEN 0 ELSE Head(d) * Head(d) + sumSquaresSequential(Tail(d))

Min(a, b) == IF a <= b THEN a ELSE b

\* chunkSize := (len(data) + workers - 1) / workers
ChunkSize == (Len(data) + workers - 1) \div workers
\* start := i * chunkSize; end := min(start+chunkSize, len(data))
ChunkStart(i) == i * ChunkSize
ChunkEnd(i) == Min(ChunkStart(i) + ChunkSize, Len(data))

\* sumSquaresConcurrent(d, n) up to its spawn loop.
SumSquaresConcurrent(d, n) ==
  /\ data = d /\ workers = n
  /\ sumI = 0 /\ chunks = << >>
  /\ sumResults = << >> /\ nRecv = 0 /\ total = 0
  /\ sumPc = "spawn"

SumInit ==
  /\ BrokerInit /\ DigitsIdle
  /\ \E d \in DataUpTo(MaxLen), n \in 1..MaxSumWorkers : SumSquaresConcurrent(d, n)

SumFrame == UNCHANGED <<brokerVars, histVars, digVars, data, workers>>

\* One round of the spawn loop: data[start:end] is evaluated by the caller and
\* panics (slice bounds out of range) when start > end; otherwise the
\* goroutine is started with the chunk.
SumSpawn ==
  /\ sumPc = "spawn"
  /\ sumI < workers
  /\ IF ChunkStart(sumI) > ChunkEnd(sumI)
       THEN /\ sumPc' = "panic"
            /\ UNCHANGED <<sumI, chunks>>
       ELSE /\ chunks' = [j \in DOMAIN chunks \cup {sumI} |->
                            IF j = sumI
                              THEN SubSeq(data, ChunkStart(sumI) + 1, ChunkEnd(sumI))
                              ELSE chunks[j]]
            /\ sumI' = sumI + 1
            /\ UNCHANGED sumPc
  /\ SumFrame
  /\ UNCHANGED <<sumResults, nRecv, total>>

\* The spawn loop has ended; the collecting loop begins.
SumSpawned ==
  /\ sumPc = "spawn"
  /\ sumI = workers
  /\ sumPc' = "collect"
  /\ SumFrame
  /\ UNCHANGED <<sumI, chunks, sumResults, nRecv, total>>

\* A chunk's goroutine: results <- sum; the buffer holds workers values.
SumWorker(i) ==
  /\ sumPc # "panic"
  /\ i \in DOMAIN chunks
  /\ Len(sumResults) < workers
  /\ sumResults' = Append(sumResults, sumSquaresSequential(chunks[i]))
  /\ chunks' = [j \in DOMAIN chunks \ {i} |-> chunks[j]]
  /\ SumFrame
  /\ UNCHANGED <<sumI, nRecv, total, sumPc>>

\* total += <-results
SumCollect ==
  /\ sumPc = "collect"
  /\ nRecv < workers
  /\ sumResults # << >>
  /\ total' = total + Head(sumResults)
  /\ sumResults' = Tail(sumResults)
  /\ nRecv' = nRecv + 1
  /\ SumFrame
  /\ UNCHANGED <<sumI, chunks, sumPc>>

\* close(results); return total
SumReturn ==
  /\ sumPc = "collect"
  /\ nRecv = workers
  /\ sumPc' = "returned"
  /\ SumFrame
  /\ UNCHANGED <<sumI, chunks, sumResults, nRecv, total>>

SumNext ==
  \/ SumSpawn
  \/ SumSpawned
  \/ \E i \in DOMAIN chunks : SumWorker(i)
  \/ SumCollect
  \/ SumReturn

SumSpec == SumInit /\ [][SumNext]_vars

\* ------------------------------------------------------------- properties
\* What a topic's set holds, what Subscribe(t) has returned, and what run has
\* accepted an Unsubscribe(t, h) for.
Registered(t) == TopicSubs(subscriptions, t)
SubscribedTo(t) == {h \in Returned : subTopic[h] = t}
UnsubscribedFrom(t) == {h \in Handles : <<t, h>> \in unsubDone}

\* Everything that was enqueued on h, in the order its consumer sees it.
Stream(h) == got[h] \o chans[h].buf
AcceptPos(p) == CHOOSE i \in 1..Len(pubLog) : pubLog[i] = p
InAcceptOrder(h) ==
  \A i, j \in 1..Len(Stream(h)) :
    i < j => AcceptPos(Stream(h)[i].Payload) < AcceptPos(Stream(h)[j].Payload)

\* C1: once run has processed the Subscribe and Unsubscribe calls made so far,
\* every topic's set is exactly the handles Subscribe(topic) returned minus
\* those passed to an accepted Unsubscribe(topic, handle).
C1_RegisteredSet ==
  \A t \in Topics : Registered(t) = SubscribedTo(t) \ UnsubscribedFrom(t)

\* One handle of a topic was unsubscribed and another is still registered.
C1_Witness ==
  \E t \in Topics : SubscribedTo(t) \cap UnsubscribedFrom(t) # {} /\ Registered(t) # {}

C3_UnsubscribeRace ==
  \A h \in Handles :
    closedBy[h] = "unsubscribe" =>
      /\ chans[h].closed
      /\ \A t \in Topics : h \notin Registered(t)
      /\ panic # [kind |-> "send on closed subscriber", sub |-> h]

\* C4 as stated: no handle ever holds a message of a Publish call that was
\* invoked after Stop was invoked.
C4_NothingAfterStop ==
  \A h \in Handles : \A i \in 1..Len(Stream(h)) : Stream(h)[i].Payload \notin lateStop

\* C4, amended: a Publish call invoked after run has taken the stop branch is
\* never accepted, has no delivery goroutine, and reaches no handle.
C4_NothingAfterStopBranch ==
  /\ \A i \in 1..Len(pubLog) : pubLog[i] \notin lateBranch
  /\ \A k \in tasks : k.msg.Payload \notin lateBranch
  /\ \A h \in Handles :
       \A i \in 1..Len(Stream(h)) : Stream(h)[i].Payload \notin lateBranch

\* A Publish was invoked after the stop branch, and a handle holds a message.
C4_Witness == lateBranch # {} /\ \E h \in Handles : Stream(h) # << >>

\* C5: when the program has come to rest after a single Stop, every handle
\* that was registered when Stop was invoked is closed (so that the range
\* loop over it can end).
C5_StopClosesEveryHandle ==
  (stopClosed /\ panic.kind # "close of closed stopCh" /\ ~ENABLED Next)
    => \A h \in atStop : chans[h].closed

\* C6: no Subscriber channel is closed twice, and a closed one is in no
\* topic's set unless run has taken the stop branch.
C6_ClosedOnce ==
  /\ panic.kind # "close of closed subscriber"
  /\ \A h \in Handles :
       chans[h].closed => (\A t \in Topics : h \notin Registered(t)) \/ stopTaken

\* One handle was closed by Unsubscribe and another by the stop branch.
C6_Witness ==
  \E h, g \in Handles : closedBy[h] = "unsubscribe" /\ closedBy[g] = "stop"

\* C7: every message enqueued on, or on its way to, a handle returned by
\* Subscribe(t) has Topic t.
C7_TopicIsolation ==
  /\ \A h \in Handles : \A i \in 1..Len(Stream(h)) : Stream(h)[i].Topic = subTopic[h]
  /\ \A k \in tasks : k.msg.Topic = subTopic[k.sub]

\* Handles of two different topics each hold a message.
C7_Witness ==
  \E h, g \in Handles :
    subTopic[h] # subTopic[g] /\ Stream(h) # << >> /\ Stream(g) # << >>

\* C8: the step in which run accepts a Publish to a topic without registered
\* handles returns the caller and changes neither the map nor the delivery
\* goroutines nor any queue; and while Stop has not been invoked such a
\* Publish does not stay blocked.
C8_EmptyTopicPublish ==
  /\ [][\A m \in pubWait :
          (pubWait' = {} /\ Registered(m.Topic) = {})
            => UNCHANGED <<subscriptions, tasks, chans, panic>>]_vars
  /\ ((\E m \in pubWait : Registered(m.Topic) = {}) /\ Running /\ ~stopClosed)
       ~> (pubWait = {} \/ ~Running \/ stopClosed)

\* A handle is registered, a publish was accepted, and nothing was ever
\* delivered, spawned or dropped.
C8_Witness ==
  /\ Running /\ pubLog # << >> /\ tasks = {} /\ dropped = {}
  /\ \E t \in Topics : Registered(t) # {}
  /\ \A h \in Handles : Stream(h) = << >>

\* C9: the step in which run accepts an Unsubscribe(topic, h) with h not in
\* that topic's set changes neither the map nor any channel, and does not
\* panic.
C9_UnsubscribeNoop ==
  [][\A r \in unsubWait :
       (unsubWait' = {} /\ r.sub \notin Registered(r.topic))
         => UNCHANGED <<subscriptions, chans, panic>>]_vars

\* An Unsubscribe naming another topic than the handle's was accepted, and the
\* handle is still registered and open.
C9_Witness ==
  \E h \in Handles, t \in Topics :
    /\ <<t, h>> \in unsubDone /\ subTopic[h] # t
    /\ h \in Registered(subTopic[h]) /\ ~chans[h].closed

\* C10: in the saturation scenario nothing panics, a message is dropped only
\* once the queue is full, and the scenario comes to rest only with every
\* Publish returned, QueueCap messages queued and the other ExtraPubs dropped.
C10_Saturation ==
  /\ panic = NoPanic
  /\ dropped # {} => Len(chans[1].buf) = QueueCap
  /\ ~ENABLED NextSat =>
       /\ nextMsg = QueueCap + ExtraPubs /\ pubWait = {} /\ tasks = {}
       /\ Len(chans[1].buf) = QueueCap
       /\ Cardinality(dropped) = ExtraPubs

\* All publishes were made and every delivery goroutine has ended.
C10_Witness ==
  /\ nextMsg = QueueCap + ExtraPubs /\ pubWait = {} /\ tasks = {}
  /\ Cardinality(dropped) = ExtraPubs


\* C11: the run loop never waits on a subscriber. While it is at its select
\* every pending request can be accepted whatever the delivery goroutines are
\* doing, every submitted request is eventually accepted, and every delivery
\* goroutine gets to attempt its send, even while handle 1's queue is full and
\* never read.
PendingEnabled ==
  (Running /\ runPc = "select") =>
    /\ \A r \in subWait : ENABLED RunSub(r)
    /\ \A r \in unsubWait : ENABLED RunUnsub(r)
    /\ \A m \in pubWait : ENABLED RunPub(m)
Starting(h) == \E k \in tasks : k.sub = h /\ k.pc = "start"
C11_NeverWaitsOnSubscriber ==
  /\ []PendingEnabled
  /\ (subWait # {}) ~> (subWait = {} \/ ~Running)
  /\ (unsubWait # {}) ~> (unsubWait = {} \/ ~Running)
  /\ (pubWait # {}) ~> (pubWait = {} \/ ~Running)
  /\ \A h \in Handles : Starting(h) ~> (~Starting(h) \/ ~Running)
\* A delivery to handle 1 is stuck on the full queue while the same message has
\* reached handle 2's consumer.
C11_Witness ==
  \E k \in tasks :
    /\ k.sub = 1 /\ k.pc = "blocked" /\ Len(chans[1].buf) = QueueCap
    /\ \E i \in 1..Len(got[2]) : got[2][i] = k.msg


\* A Subscribe, Unsubscribe or Publish call made after run has returned (a
\* second Stop is the call that ends in the close of the closed stopCh).
LateCall ==
  /\ runPc = "exited"
  /\ nCalls' = nCalls + 1
  /\ panic'.kind # "close of closed stopCh"
Inert == UNCHANGED <<subscriptions, chans, tasks, got, pubLog, unsubDone>>

\* C12 as stated: a call made after Stop and the end of the run loop is dropped
\* or blocks its caller for ever, and changes nothing in the broker.
C12_LateCallDroppedOrBlocked ==
  [][LateCall => (panic' = NoPanic /\ Inert)]_vars

\* C12, amended: a call made after Stop and the end of the run loop panics in
\* its send on the request channel run has closed, and changes neither the
\* subscription state nor any subscriber's queue.
C12_LateCallPanics ==
  [][LateCall => (panic' = SendClosed /\ Inert)]_vars
\* A call made after run returned has panicked, with a handle subscribed.
C12_Witness ==
  /\ runPc = "exited" /\ panic = SendClosed
  /\ subWait = {} /\ unsubWait = {} /\ pubWait = {}
  /\ \E t \in DOMAIN subscriptions : subscriptions[t] # {}


\* What a sequential scan of ws counts: how often the rune r occurs, and the
\* map from every digit rune '0'..'9' that occurs to that number.
Occurrences(ws, r) ==
  Cardinality({p \in (1..Len(ws)) \X (1..4) :
                 p[2] <= Len(ws[p[1]]) /\ ws[p[1]][p[2]] = r})
SequentialCount(ws) ==
  [r \in {d \in 48..57 : Occurrences(ws, d) > 0} |-> Occurrences(ws, r)]

\* C13: when countDigitsParallel returns and the context was not cancelled,
\* the map it returns is the sequential count of its words, for every worker
\* count and every interleaving.
C13_ParallelEqualsSequential ==
  (mergePc = "returned" /\ ~cancelled) => final = SequentialCount(words)
\* Two workers, two words, and a digit whose count was merged from both words.
C13_Witness ==
  /\ mergePc = "returned" /\ ~cancelled
  /\ numWorkers = 2 /\ Len(words) = 2
  /\ 57 \in DOMAIN final /\ final[57] = 3 /\ 48 \in DOMAIN final

\* Every goroutine of the digit counter has ended and the function returned.
AllExited ==
  /\ mergePc = "returned" /\ prodPc = "exited" /\ coordPc = "exited"
  /\ \A w \in DOMAIN wpc : wpc[w] = "exited"

\* C14: no goroutine of the digit counter panics, and once the context is
\* cancelled, before or during the call, countDigitsParallel returns and the
\* producer, every worker and the coordinator exit.
C14_CancelledReturns ==
  /\ [](~digPanic)
  /\ cancelled ~> AllExited
\* Cancelled in mid-run: all have exited, the producer before its last word,
\* and a part of the count was merged.
C14_Witness ==
  /\ cancelled /\ AllExited
  /\ prodIdx <= Len(words)
  /\ final # << >> /\ final # SequentialCount(words)


\* C15: for every slice and every worker count of at least one,
\* sumSquaresConcurrent completes, and what it returns is
\* sumSquaresSequential of the slice.
C15_ConcurrentEqualsSequential ==
  /\ sumPc # "panic"
  /\ sumPc = "returned" => total = sumSquaresSequential(data)


\* C16: no delivery goroutine sends on a Subscriber channel that the stop
\* branch has closed (a send that panics).
C16_NoSendAfterStopClose ==
  \A h \in Handles :
    closedBy[h] = "stop" => panic # [kind |-> "send on closed subscriber", sub |-> h]


\* The delivery attempts that are under way, as (handle, message) pairs, and
\* how often a handle's stream holds a payload.
Attempts(ts) == {<<k.sub, k.msg>> : k \in ts}
TimesIn(h, p) == Cardinality({i \in 1..Len(Stream(h)) : Stream(h)[i].Payload = p})
\* The step in which run accepts a publish starts one attempt for every handle
\* registered under the topic, and no other step starts any.
StartsOnePerHandle ==
  IF pubLog' # pubLog
    THEN \E m \in pubWait :
           /\ Attempts(tasks') \ Attempts(tasks) = Registered(m.Topic) \X {m}
           /\ Cardinality(tasks') = Cardinality(tasks) + Cardinality(Registered(m.Topic))
    ELSE Attempts(tasks') \subseteq Attempts(tasks)
\* An attempt that ends has either put its message once on its handle's queue
\* or dropped it, never both.
EndsOneWay ==
  \A k \in tasks :
    <<k.sub, k.msg>> \notin Attempts(tasks') =>
      LET sent == /\ Len(chans'[k.sub].buf) = Len(chans[k.sub].buf) + 1
                  /\ chans'[k.sub].buf[Len(chans'[k.sub].buf)] = k.msg
          lost == dropped' = dropped \cup {<<k.sub, k.msg.Payload>>}
      IN /\ sent \/ lost
         /\ sent => dropped' = dropped
         /\ lost => chans' = chans
AtMostOnce ==
  \A h \in Handles, p \in 1..nextMsg :
    /\ TimesIn(h, p) <= 1
    /\ <<h, p>> \in dropped => TimesIn(h, p) = 0

\* An attempt ends in a panic: its send found the channel closed.
EndsInPanic ==
  panic' # panic /\ panic'.kind = "send on closed subscriber"

\* C17: an accepted Publish starts exactly one delivery attempt per handle
\* registered under its topic; an attempt ends enqueued once or dropped on
\* timeout, in no other way, not both and not again; a handle gets a
\* published message at most once.
C17_OneAttemptOneOutcome ==
  [][StartsOnePerHandle /\ EndsOneWay /\ ~EndsInPanic /\ AtMostOnce']_vars
\* What holds of the attempts that do not end in a panic.
OneOutcomeUnlessPanic ==
  [][StartsOnePerHandle /\ EndsOneWay /\ AtMostOnce']_vars


\* C18: when run accepts a Publish(t, p), a delivery attempt is started for
\* every handle that Subscribe(t) has returned and for which no
\* Unsubscribe(t, h) was accepted: a handle is registered before its
\* Subscribe returns.
C18_RegisteredBeforeReturn ==
  [][pubLog' # pubLog =>
       \A m \in pubWait :
         \A h \in SubscribedTo(m.Topic) \ UnsubscribedFrom(m.Topic) :
           <<h, m>> \in Attempts(tasks')]_vars
\* Two handles have an attempt for the same message under way.
C18_Witness ==
  \E k1, k2 \in tasks :
    /\ k1.sub # k2.sub /\ k1.msg = k2.msg
    /\ {k1.sub, k2.sub} \subseteq Returned


\* The steps in which run handles a subscribe or an unsubscribe request.
HandlesSubOrUnsub ==
  /\ runPc = "select"
  /\ \/ subWait # {} /\ subWait' = {}
     \/ unsubWait # {} /\ unsubWait' = {}

\* C19: the subscription map changes only in a step of run that handles a
\* subscribe or an unsubscribe request; no call, no publish branch, no stop
\* branch and no delivery goroutine changes it.
C19_MapChangesOnlyInRun ==
  [][subscriptions' # subscriptions =>
       /\ HandlesSubOrUnsub
       /\ nCalls' = nCalls /\ pubLog' = pubLog /\ tasks' = tasks]_vars
\* The map was changed by both branches, and a publish was accepted.
C19_Witness ==
  /\ \E t \in DOMAIN subscriptions : subscriptions[t] = {}
  /\ \E t \in DOMAIN subscriptions : subscriptions[t] # {}
  /\ pubLog # << >>


\* A call of Stop when stopCh is closed already: the one call that queues no
\* request, numbers no message and does not panic in a send.
StopAgain ==
  /\ stopClosed
  /\ nCalls' = nCalls + 1
  /\ UNCHANGED <<subWait, unsubWait, pubWait, nextMsg>>
  /\ panic' # SendClosed

\* C20: a second call of Stop panics in its close of the closed stopCh,
\* wherever the run loop is.
C20_SecondStopPanics ==
  [][StopAgain => panic' = [kind |-> "close of closed stopCh", sub |-> 0]]_vars
\* The second Stop came after run had returned.
C20_Witness ==
  panic.kind = "close of closed stopCh" /\ runPc = "exited"


\* The attempt to deliver payload p to handle h is under way, and it has ended
\* with its send or with its timeout.
Live(h, p) == \E k \in tasks : k.sub = h /\ k.msg.Payload = p
Ended(h, p) == ~Live(h, p) /\ (TimesIn(h, p) = 1 \/ <<h, p>> \in dropped)
\* The program was ended by a caller (a second Stop, a call after run
\* returned), not by a delivery goroutine.
EndedByCaller == ~Running /\ panic.kind # "send on closed subscriber"

\* C21: every delivery goroutine that run spawns ends, with its send or with
\* its timeout, whether or not its subscriber ever reads, so that no
\* goroutine stays for ever (unless a caller's panic ends the whole program
\* first).
C21_DeliveryTerminates ==
  \A h \in Handles, p \in 1..MaxCalls :
    Live(h, p) ~> (Ended(h, p) \/ EndedByCaller)
\* What holds of the goroutines whose send does not panic.
DeliveryTerminatesUnlessPanic ==
  \A h \in Handles, p \in 1..MaxCalls :
    Live(h, p) ~> (Ended(h, p) \/ ~Running)


\* The topics whose set holds h, and the visits to h the stop branch has left.
TopicsOf(h) == {t \in DOMAIN subscriptions : h \in subscriptions[t]}
VisitsLeft(h) == {p \in stopLeft : p[2] = h}

\* C22: a handle is in at most one topic's set, that of the topic its
\* Subscribe call named; so the stop branch visits a registered handle once,
\* finds it open, and has closed every registered handle when run returns.
C22_OneTopicPerHandle ==
  /\ \A h \in Handles :
       /\ Cardinality(TopicsOf(h)) <= 1
       /\ TopicsOf(h) \subseteq {subTopic[h]}
       /\ Cardinality(VisitsLeft(h)) <= 1
       /\ VisitsLeft(h) # {} => ~chans[h].closed
       /\ (runPc = "exited" /\ TopicsOf(h) # {}) => closedBy[h] = "stop"
  /\ panic.kind # "close of closed subscriber"
\* The stop branch has closed two handles of two topics and run has returned.
C22_Witness ==
  /\ runPc = "exited" /\ Running
  /\ \E h, g \in Handles :
       /\ TopicsOf(h) # {} /\ TopicsOf(g) # {} /\ TopicsOf(h) # TopicsOf(g)
       /\ closedBy[h] = "stop" /\ closedBy[g] = "stop"


\* The count a map holds for the rune r, and the counts still on their way to
\* final: in the results channel, in a worker's hands, in the tasks channel
\* and in the words the producer has not sent.
Val(m, r) == IF r \in DOMAIN m THEN m[r] ELSE 0
RECURSIVE SumMaps(_, _)
SumMaps(ms, r) ==
  IF ms = << >> THEN 0 ELSE Val(Head(ms), r) + SumMaps(Tail(ms), r)
RECURSIVE SumHeld(_, _)
SumHeld(ws, r) ==
  IF ws = {} THEN 0
  ELSE LET w == CHOOSE x \in ws : TRUE
       IN Val(wm[w], r) + SumHeld(ws \ {w}, r)
OnTheWay(r) ==
  SumMaps(resultQ, r) + SumHeld(DOMAIN wm, r)
    + Occurrences(taskQ, r)
    + Occurrences(SubSeq(words, prodIdx, Len(words)), r)

\* The runes of the words.
Runes == UNION {{w[i] : i \in 1..Len(w)} : w \in Vocabulary}

\* C23: the map countDigitsParallel returns never over-counts, cancelled or
\* not: its keys are digit runes of the words, and for every rune what final
\* holds together with what is still on its way is at most the number of
\* occurrences in the words, so that no word's digits are merged twice.
C23_NeverOverCounts ==
  /\ DOMAIN final \subseteq 48..57
  /\ \A r \in Runes :
       Val(final, r) + (IF r \in 48..57 THEN OnTheWay(r) ELSE 0)
         <= Occurrences(words, r)
\* Returned after a cancellation with a digit counted, but not in full.
C23_Witness ==
  /\ mergePc = "returned" /\ cancelled
  /\ \E r \in DOMAIN final : final[r] > 0 /\ final[r] < Occurrences(words, r)

====
